---- MODULE Spec2Model ----
(***************************************************************************)
(* Thread-reference resolution of slack-libpurple (slack-thread.c).        *)
(*                                                                         *)
(* A C string is a sequence of tokens: a token is one character ("1", ".", *)
(* ":") or, for a fixed literal or an opaque user text, the whole text.    *)
(* A nullable pointer is NULL (the empty tuple) or Ptr(v), the one-element *)
(* tuple holding the pointee.                                              *)
(*                                                                         *)
(* A local value that is used more than once is bound by                   *)
(*     CHOOSE out \in {body : v \in {e}} : TRUE                            *)
(* which is body with v standing for the value of e, e evaluated once.     *)
(***************************************************************************)
EXTENDS Integers, Sequences, FiniteSets, TLC

\* ------------------------------------------------------------------ bounds
\* Longest string handed to the classifier on its own.
MaxLen == 4
\* Thread operations allocated in one run.
MaxOps == 2
\* Most entries of a "messages" array in a history response.
MaxMatches == 2
\* Messages an asynchronous send holds at once.
MaxPending == 2

\* ----------------------------------------------------------------- pointers
NULL == <<>>
Ptr(v) == <<v>>
Deref(p) == p[1]

\* ------------------------------------------------------------------ strings
Digits == {"0", "1", "2", "3", "4", "5", "6", "7", "8", "9"}

DigitVal(c) ==
  CASE c = "0" -> 0 [] c = "1" -> 1 [] c = "2" -> 2 [] c = "3" -> 3
    [] c = "4" -> 4 [] c = "5" -> 5 [] c = "6" -> 6 [] c = "7" -> 7
    [] c = "8" -> 8 [] c = "9" -> 9

DigitChar(d) ==
  CASE d = 0 -> "0" [] d = 1 -> "1" [] d = 2 -> "2" [] d = 3 -> "3"
    [] d = 4 -> "4" [] d = 5 -> "5" [] d = 6 -> "6" [] d = 7 -> "7"
    [] d = 8 -> "8" [] d = 9 -> "9"

\* Characters the classifier is exercised on: two digits, the dot, a letter.
Alphabet == {"0", "1", ".", "a"}

RECURSIVE SeqsUpTo(_, _)
SeqsUpTo(S, n) ==
  IF n = 0 THEN {<<>>}
  ELSE CHOOSE out \in {shorter \cup {Append(s, c) : s \in shorter, c \in S} :
                         shorter \in {SeqsUpTo(S, n - 1)}} : TRUE

\* --------------------------------------------------------------- classifier
\* One turn of the loop of slack_is_slack_ts on the character c: the three
\* flags after it, ret set when the loop returns FALSE there.
ts_step(found, c) ==
  IF c \in Digits
  THEN IF found.dot THEN [found EXCEPT !.suffix = TRUE]
                    ELSE [found EXCEPT !.prefix = TRUE]
  ELSE IF c = "."
       THEN IF found.dot THEN [found EXCEPT !.ret = TRUE]
                         ELSE [found EXCEPT !.dot = TRUE]
       ELSE found

\* The loop from position i.
RECURSIVE ts_scan(_, _, _)
ts_scan(str, i, found) ==
  IF i > Len(str)
  THEN found.prefix /\ found.dot /\ found.suffix
  ELSE CHOOSE out \in {IF f.ret THEN FALSE ELSE ts_scan(str, i + 1, f) :
                         f \in {ts_step(found, str[i])}} : TRUE

slack_is_slack_ts(str) ==
  ts_scan(str, 1, [prefix |-> FALSE, dot |-> FALSE, suffix |-> FALSE,
                   ret |-> FALSE])

\* ------------------------------------------------------- local time resolver
\* struct tm, with the calendar year in full and the month counted from 1.
\* The local clock read by time()/localtime_r() at the call.
Nows == {[year |-> 2021, mon |-> 6, mday |-> 1, hour |-> 12, min |-> 0, sec |-> 0]}

\* The locale's formats (POSIX locale): %X is %H:%M:%S, %x is %m/%d/%y.
FmtTime == <<"%H", ":", "%M", ":", "%S">>
FmtDateTime == <<"%m", "/", "%d", "/", "%y", "-">> \o FmtTime

RECURSIVE skip_spaces(_, _)
skip_spaces(s, pos) ==
  IF pos <= Len(s) /\ s[pos] = " " THEN skip_spaces(s, pos + 1) ELSE pos

\* The digit loop of strptime's number reader: at most n digits, and no
\* further digit once ten times the value would pass the field's maximum.
RECURSIVE more_digits(_, _, _, _, _)
more_digits(s, pos, val, n, to) ==
  IF n > 0 /\ val * 10 <= to /\ pos <= Len(s) /\ s[pos] \in Digits
  THEN more_digits(s, pos + 1, val * 10 + DigitVal(s[pos]), n - 1, to)
  ELSE [val |-> val, pos |-> pos]

get_number(s, pos0, from, to, n) ==
  CHOOSE out \in
    {IF pos > Len(s) \/ s[pos] \notin Digits
     THEN [ok |-> FALSE, val |-> 0, pos |-> pos]
     ELSE CHOOSE num \in
            {[ok |-> r.val >= from /\ r.val <= to, val |-> r.val, pos |-> r.pos] :
               r \in {more_digits(s, pos + 1, DigitVal(s[pos]), n - 1, to)}} : TRUE :
       pos \in {skip_spaces(s, pos0)}} : TRUE

\* One conversion of the format: the field's range, and the tm member it sets.
conv_number(item, s, pos) ==
  CASE item = "%H" -> get_number(s, pos, 0, 23, 2)
    [] item = "%M" -> get_number(s, pos, 0, 59, 2)
    [] item = "%S" -> get_number(s, pos, 0, 61, 2)
    [] item = "%m" -> get_number(s, pos, 1, 12, 2)
    [] item = "%d" -> get_number(s, pos, 1, 31, 2)
    [] item = "%y" -> get_number(s, pos, 0, 99, 2)

conv_store(item, tm, val) ==
  CASE item = "%H" -> [tm EXCEPT !.hour = val]
    [] item = "%M" -> [tm EXCEPT !.min = val]
    [] item = "%S" -> [tm EXCEPT !.sec = val]
    [] item = "%m" -> [tm EXCEPT !.mon = val]
    [] item = "%d" -> [tm EXCEPT !.mday = val]
    [] item = "%y" -> [tm EXCEPT !.year = IF val >= 69 THEN 1900 + val
                                                        ELSE 2000 + val]

\* One item of the format at st.pos of s: a conversion or a literal character.
strptime_item(s, item, st) ==
  IF item \in {"%H", "%M", "%S", "%m", "%d", "%y"}
  THEN CHOOSE out \in
         {[ok |-> num.ok, pos |-> num.pos,
           tm |-> IF num.ok THEN conv_store(item, st.tm, num.val) ELSE st.tm] :
            num \in {conv_number(item, s, st.pos)}} : TRUE
  ELSE IF st.pos <= Len(s) /\ s[st.pos] = item
       THEN [ok |-> TRUE, pos |-> st.pos + 1, tm |-> st.tm]
       ELSE [ok |-> FALSE, pos |-> st.pos, tm |-> st.tm]

\* strptime(s, fmt, &tm) from format item k: ok is "returned non-NULL", pos
\* the position of the returned pointer, tm the struct as left behind.
RECURSIVE strptime(_, _, _, _)
strptime(s, fmt, k, st) ==
  IF k > Len(fmt)
  THEN st
  ELSE CHOOSE out \in {IF st2.ok THEN strptime(s, fmt, k + 1, st2) ELSE st2 :
                         st2 \in {strptime_item(s, fmt[k], st)}} : TRUE

\* Days from 1970-01-01 to the civil date; a day of the month past the
\* month's end runs on into the next month, as mktime normalises it.
days_from_civil(y0, m, d) ==
  LET y == IF m <= 2 THEN y0 - 1 ELSE y0
      era == y \div 400
      yoe == y - era * 400
      mp == IF m > 2 THEN m - 3 ELSE m + 9
      doy == (153 * mp + 2) \div 5 + d - 1
  IN era * 146097 + yoe * 365 + yoe \div 4 - yoe \div 100 + doy - 719468

\* mktime(&tm), the local zone being UTC.
mktime(tm) ==
  days_from_civil(tm.year, tm.mon, tm.mday) * 86400
    + tm.hour * 3600 + tm.min * 60 + tm.sec

slack_get_ts_from_time_str(time_str, now) ==
  CHOOSE ts \in
    {IF r1.ok /\ r1.pos = Len(time_str) + 1
     THEN mktime(r1.tm)
     ELSE CHOOSE ts2 \in
            {IF r2.ok /\ r2.pos = Len(time_str) + 1 THEN mktime(r2.tm) ELSE 0 :
               r2 \in {strptime(time_str, FmtDateTime, 1,
                                [ok |-> TRUE, pos |-> 1, tm |-> r1.tm])}} : TRUE :
       r1 \in {strptime(time_str, FmtTime, 1,
                        [ok |-> TRUE, pos |-> 1, tm |-> now])}} : TRUE

\* printf("%ld", n): the decimal digits of n, a minus sign before a negative.
RECURSIVE fmt_digits(_)
fmt_digits(n) ==
  IF n < 10 THEN <<DigitChar(n)>>
  ELSE CHOOSE out \in {Append(fmt_digits(m), DigitChar(n % 10)) :
                         m \in {n \div 10}} : TRUE

fmt_ld(n) == IF n < 0 THEN <<"-">> \o fmt_digits(0 - n) ELSE fmt_digits(n)

\* Time strings typed by the user.
Str_14_30_00 == <<"1", "4", ":", "3", "0", ":", "0", "0">>
Str_date_time ==
  <<"0", "5", "/", "3", "1", "/", "2", "1", "-">> \o Str_14_30_00
Str_epoch ==
  <<"0", "1", "/", "0", "1", "/", "7", "0", "-",
    "0", "0", ":", "0", "0", ":", "0", "0">>
Str_trailing == Str_14_30_00 \o <<" ", "x">>
Str_canonical == <<"1", ".", "5">>
Str_letter_in_ts == <<"1", "a", ".", "2">>

TimeStrs ==
  {Str_14_30_00, Str_date_time, Str_epoch, Str_trailing, Str_canonical,
   Str_letter_in_ts}

\* The resolver's result for every time string and clock of the model,
\* computed once.
ResolvedAt ==
  [t \in TimeStrs |-> [now \in Nows |-> slack_get_ts_from_time_str(t, now)]]

\* ------------------------------------------------------------ conversations
Convs == {"general", "alice", "ghost"}

\* The GObject class of each conversation object.
ConvClass(conv) ==
  CASE conv = "general" -> "SlackChannel"
    [] conv = "alice" -> "SlackUser"
    [] OTHER -> "SlackObject"

SLACK_IS_CHANNEL(conv) == ConvClass(conv) = "SlackChannel"
SLACK_IS_USER(conv) == ConvClass(conv) = "SlackUser"

\* chan->cid of a channel, user->object.name of a user.
ConvName(conv) == <<conv>>

\* slack_conversation_id: the identifier of a channel or of a user's IM.
slack_conversation_id(conv) ==
  CASE SLACK_IS_CHANNEL(conv) -> Ptr(<<"C-", conv>>)
    [] SLACK_IS_USER(conv) -> Ptr(<<"D-", conv>>)
    [] OTHER -> NULL

\* Messages handed to slack_thread_post_to_timestamp.
Hello == Ptr(<<"hello">>)

\* The calls made of the two entry points: every kind of time string on the
\* channel, and each class of conversation with an accepted string and with
\* a string that resolves.
Request(obj, timestr, msg) == [obj |-> obj, timestr |-> timestr, msg |-> msg]

PostRequests ==
  {Request("general", t, Hello) : t \in TimeStrs \ {Str_date_time}}
    \cup {Request("general", t, NULL) : t \in {Str_14_30_00, Str_canonical, Str_trailing}}
    \cup {Request("alice", t, Hello) : t \in {Str_date_time, Str_canonical}}
    \cup {Request("ghost", t, Hello) : t \in {Str_14_30_00, Str_canonical}}

GetRequests ==
  {Request("general", t, NULL) : t \in TimeStrs \ {Str_14_30_00}}
    \cup {Request("alice", Str_canonical, NULL)}

\* ------------------------------------------------------- history responses
TsA == <<"1", ".", "0", "0", "0", "0", "0", "1">>
TsB == <<"1", ".", "0", "0", "0", "0", "0", "2">>
TsOld == <<"7", ".", "0", "0", "0", "0", "0", "7">>

Entries ==
  {[ts |-> Ptr(TsA), text |-> Ptr(<<"hi">>)],
   [ts |-> Ptr(TsB), text |-> NULL],
   [ts |-> NULL, text |-> Ptr(<<"hi">>)]}

\* The arrays a history response carries: no message twice.
Lists ==
  {l \in SeqsUpTo(Entries, MaxMatches) :
     \A i, j \in 1..Len(l) : i # j => l[i] # l[j]}

Json(list) == Ptr([messages |-> Ptr(list)])
ApiError == Ptr(<<"channel_not_found">>)

\* What the transport hands the callback: a response with its array, or an
\* error, with no response or with one whose array is empty.
Response(json, error) == [json |-> json, error |-> error]

Responses ==
  {Response(Json(l), NULL) : l \in Lists}
    \cup {Response(NULL, ApiError), Response(Json(<<>>), ApiError)}

\* json_get_prop_type(json, "messages", array)
json_get_prop_type(json) == IF json = NULL THEN NULL ELSE Deref(json).messages

\* json_get_prop_strptr(entry, key)
json_get_prop_strptr(entry, key) == IF key = "ts" THEN entry.ts ELSE entry.text

\* slack_get_thread_color: a colour computed from the timestamp alone.
RECURSIVE digit_sum(_, _)
digit_sum(ts, i) ==
  IF i > Len(ts) THEN 0
  ELSE (IF ts[i] \in Digits THEN DigitVal(ts[i]) ELSE 0) + digit_sum(ts, i + 1)

slack_get_thread_color(ts) == <<"color", DigitChar(digit_sum(ts, 1) % 10)>>

\* -------------------------------------------------------------------- state
VARIABLES
  thread_ts,  \* conv->thread_ts of every conversation: NULL or Ptr(timestamp)
  refs,       \* references this module holds on every conversation
  ops,        \* the struct thread_op behind every pointer g_new can return
  inflight,   \* history queries handed to slack_api_get and not yet answered
  crashed,    \* the process was ended by a fault
  last,       \* the handler that ran last: its arguments and what it did
  in_str,     \* the string handed to the classifier on its own
  verdict,    \* what the classifier returned for it ("none" before the call)
  outbox,     \* messages an asynchronous send has taken and not yet transmitted
  transmitted \* the message transmitted last, with its tag (NULL before any)

vars ==
  <<thread_ts, refs, ops, inflight, crashed, last, in_str, verdict, outbox,
    transmitted>>

OpIds == 1..MaxOps

NoOp ==
  [st |-> "unused", conv |-> "none", op |-> "none", msg |-> NULL,
   frees |-> 0, runs |-> 0]

\* The program's state at the start of a handler, with the handler's log of
\* what it wrote, sent, fetched, logged, allocated and dispatched still empty
\* and no instant resolved (T is 0).
World ==
  [thread_ts |-> thread_ts, refs |-> refs, ops |-> ops, inflight |-> inflight,
   written |-> <<>>, sends |-> <<>>, fetched |-> <<>>, logged |-> <<>>,
   created |-> <<>>, queries |-> <<>>, T |-> 0]

\* What a handler did, read off the world w it left behind.
CallRecord(call, obj, timestr, msg, data, kind, json, error, before, w, returned) ==
  [call |-> call, obj |-> obj, timestr |-> timestr, msg |-> msg,
   data |-> data, kind |-> kind, json |-> json, error |-> error, T |-> w.T, before |-> before,
   written |-> w.written, sends |-> w.sends, fetched |-> w.fetched,
   logged |-> w.logged, created |-> w.created, queries |-> w.queries,
   returned |-> returned]

\* ------------------------------------------------------------- thread_op
\* g_new: the first struct not handed out yet (0 once MaxOps are).
thread_op_alloc(w) ==
  IF \A i \in OpIds : w.ops[i].st # "unused"
  THEN 0
  ELSE CHOOSE i \in OpIds :
         w.ops[i].st = "unused" /\ \A j \in 1..(i - 1) : w.ops[j].st # "unused"

\* The three assignments of a constructor, on the struct ret.
thread_op_init(w, ret, conv, op, msg) ==
  IF ret = 0
  THEN [w EXCEPT !.created = Append(@, ret)]
  ELSE [w EXCEPT !.refs[conv] = @ + 1,
                 !.created = Append(@, ret),
                 !.ops[ret] = [st |-> "live", conv |-> conv, op |-> op,
                               msg |-> msg, frees |-> 0, runs |-> 0]]

thread_op_new_post(w, conv, msg) ==
  CHOOSE new \in
    {[ret |-> ret, w |-> thread_op_init(w, ret, conv, "ThreadOpPost", msg)] :
       ret \in {thread_op_alloc(w)}} : TRUE

thread_op_new_get_replies(w, conv) ==
  CHOOSE new \in
    {[ret |-> ret, w |-> thread_op_init(w, ret, conv, "ThreadOpGetReplies", NULL)] :
       ret \in {thread_op_alloc(w)}} : TRUE

\* thread_op_free without the g_object_unref of line 87.
thread_op_free_no_unref(w, op) ==
  IF op = 0
  THEN w
  ELSE [w EXCEPT !.ops[op] = [NoOp EXCEPT !.st = "freed",
                                          !.frees = w.ops[op].frees + 1,
                                          !.runs = w.ops[op].runs]]

\* The freed struct keeps nothing but the counts of its callbacks and frees.
thread_op_free(w, op) ==
  IF op = 0
  THEN w
  ELSE [w EXCEPT !.refs[w.ops[op].conv] = @ - 1,
                 !.ops[op] = [NoOp EXCEPT !.st = "freed",
                                          !.frees = w.ops[op].frees + 1,
                                          !.runs = w.ops[op].runs]]

\* ------------------------------------------------------------ collaborators
SystemMessage(conv, text) ==
  [conv |-> conv, text |-> text, flags |-> "PURPLE_MESSAGE_SYSTEM"]

slack_write_message(w, conv, text) ==
  [w EXCEPT !.written = Append(@, SystemMessage(conv, text))]

\* slack_chat_send / slack_send_im: the message goes out tagged with the
\* thread-context the conversation has at the call.
slack_send(w, fn, conv, to, msg) ==
  [w EXCEPT !.sends = Append(@, [fn |-> fn, conv |-> conv, to |-> to,
                                 msg |-> msg, thread_ts |-> w.thread_ts[conv]])]

slack_get_thread_replies(w, conv, ts) ==
  [w EXCEPT !.fetched = Append(@, [conv |-> conv, ts |-> ts])]

purple_debug(w, line) == [w EXCEPT !.logged = Append(@, line)]

\* --------------------------------------------------------------- thread post
ENOENT == 2

slack_thread_send_message(w, conv, msg) ==
  IF SLACK_IS_CHANNEL(conv)
  THEN [status |-> 1,
        w |-> slack_send(w, "slack_chat_send", conv, ConvName(conv), msg)]
  ELSE IF SLACK_IS_USER(conv)
       THEN [status |-> 1,
             w |-> slack_send(w, "slack_send_im", conv, ConvName(conv), msg)]
       ELSE [status |-> 0 - ENOENT, w |-> w]

\* The send of slack_thread_post telling the conversation of its failure.
thread_post_send_reports(w, conv, msg) ==
  CHOOSE out \in
    {IF snd.status < 0
     THEN slack_write_message(purple_debug(snd.w, "Not able to send message"),
                              conv, <<"Not able to send message">>)
     ELSE snd.w :
       snd \in {slack_thread_send_message(w, conv, msg)}} : TRUE

\* The send of slack_thread_post and the report of its failure.
thread_post_send(w, conv, msg) ==
  CHOOSE out \in
    {IF snd.status < 0 THEN purple_debug(snd.w, "Not able to send message")
                       ELSE snd.w :
       snd \in {slack_thread_send_message(w, conv, msg)}} : TRUE

\* slack_thread_post without the restoring assignment of line 120.
slack_thread_post_no_restore(w, conv, ts, msg) ==
  IF msg = NULL
  THEN w
  ELSE thread_post_send([w EXCEPT !.thread_ts[conv] = Ptr(ts)], conv, Deref(msg))

\* slack_thread_post without the test of lines 106-107: an absent message
\* goes out empty.
slack_thread_post_sends_null(w, conv, ts, msg) ==
  CHOOSE out \in
    {[w2 EXCEPT !.thread_ts[conv] = old_thread_ts] :
       old_thread_ts \in {w.thread_ts[conv]},
       w2 \in {thread_post_send([w EXCEPT !.thread_ts[conv] = Ptr(ts)], conv,
                                IF msg = NULL THEN <<>> ELSE Deref(msg))}} : TRUE

\* slack_thread_post leaving no thread-context behind instead of the old one.
slack_thread_post_clears(w, conv, ts, msg) ==
  IF msg = NULL
  THEN w
  ELSE CHOOSE out \in
         {[w2 EXCEPT !.thread_ts[conv] = NULL] :
            w2 \in {thread_post_send([w EXCEPT !.thread_ts[conv] = Ptr(ts)],
                                     conv, Deref(msg))}} : TRUE

slack_thread_post(w, conv, ts, msg) ==
  IF msg = NULL
  THEN w
  ELSE CHOOSE out \in
         {[w2 EXCEPT !.thread_ts[conv] = old_thread_ts] :
            old_thread_ts \in {w.thread_ts[conv]},
            w2 \in {thread_post_send([w EXCEPT !.thread_ts[conv] = Ptr(ts)],
                                     conv, Deref(msg))}} : TRUE

\* ----------------------------------------------------------- reply callback
\* The not-found text cut after its first sentence.
NotFoundMsg_short == <<"Thread not found.">>

NotFoundMsg ==
  <<"Thread not found. If the thread start date is not today, make sure you specify the date in the thread timestamp.">>

AmbiguousHeader ==
  <<"Thread timestamp is ambiguous. Please use one of the following unambiguous thread IDs:\n">>

\* The loop's turn printing an absent text as the empty string.
ambiguous_line_no_null(entry) ==
  CHOOSE line \in
    {IF ts # NULL
     THEN <<"<font color=\"#">> \o slack_get_thread_color(Deref(ts))
            \o <<"\">">> \o Deref(ts) \o <<"</font> (\"">>
            \o (IF msg # NULL THEN Deref(msg) ELSE <<>>)
            \o <<"\")\n">>
     ELSE <<>> :
       ts \in {json_get_prop_strptr(entry, "ts")},
       msg \in {json_get_prop_strptr(entry, "text")}} : TRUE

\* What one turn of the loop over the array appends for an entry.
ambiguous_line(entry) ==
  CHOOSE line \in
    {IF ts # NULL
     THEN <<"<font color=\"#">> \o slack_get_thread_color(Deref(ts))
            \o <<"\">">> \o Deref(ts) \o <<"</font> (\"">>
            \o (IF msg # NULL THEN Deref(msg) ELSE <<"NULL">>)
            \o <<"\")\n">>
     ELSE <<>> :
       ts \in {json_get_prop_strptr(entry, "ts")},
       msg \in {json_get_prop_strptr(entry, "text")}} : TRUE

\* The loop from entry i.
RECURSIVE ambiguous_lines(_, _)
ambiguous_lines(list, i) ==
  IF i > Len(list)
  THEN <<>>
  ELSE ambiguous_line(list[i]) \o ambiguous_lines(list, i + 1)

\* The switch leaving the match's ts as the thread-context of a conversation
\* whose replies it fetches.
thread_cb_switch_sets_context(w, op, conv, ts) ==
  CASE w.ops[op].op = "ThreadOpPost" ->
         slack_thread_post(w, conv, ts, w.ops[op].msg)
    [] w.ops[op].op = "ThreadOpGetReplies" ->
         slack_get_thread_replies([w EXCEPT !.thread_ts[conv] = Ptr(ts)], conv, ts)
    [] OTHER -> w

\* The switch with its two cases exchanged.
thread_cb_switch_swapped(w, op, conv, ts) ==
  CASE w.ops[op].op = "ThreadOpGetReplies" ->
         slack_thread_post(w, conv, ts, w.ops[op].msg)
    [] w.ops[op].op = "ThreadOpPost" ->
         slack_get_thread_replies(w, conv, ts)
    [] OTHER -> w

\* The switch on op->op, ts being the match's timestamp.
thread_cb_switch(w, op, conv, ts) ==
  CASE w.ops[op].op = "ThreadOpPost" ->
         slack_thread_post(w, conv, ts, w.ops[op].msg)
    [] w.ops[op].op = "ThreadOpGetReplies" ->
         slack_get_thread_replies(w, conv, ts)
    [] OTHER -> w

\* The callback telling the user "not found" when the one match has no ts.
thread_cb_branch_reports_missing_ts(w, op, list) ==
  CHOOSE out \in
    {IF Len(list) <= 0
     THEN slack_write_message(w, conv, NotFoundMsg)
     ELSE IF Len(list) > 1
          THEN slack_write_message(w, conv,
                                   AmbiguousHeader \o ambiguous_lines(list, 1))
          ELSE CHOOSE out1 \in
                 {IF ts = NULL
                  THEN slack_write_message(w, conv, NotFoundMsg)
                  ELSE thread_cb_switch(w, op, conv, Deref(ts)) :
                    ts \in {json_get_prop_strptr(list[1], "ts")}} : TRUE :
       conv \in {w.ops[op].conv}} : TRUE

\* slack_thread_cb from the first test of the array's length to the label
\* "end", the array being list.
thread_cb_branch(w, op, list) ==
  CHOOSE out \in
    {IF Len(list) <= 0
     THEN slack_write_message(w, conv, NotFoundMsg)
     ELSE IF Len(list) > 1
          THEN slack_write_message(w, conv,
                                   AmbiguousHeader \o ambiguous_lines(list, 1))
          ELSE CHOOSE out1 \in
                 {IF ts = NULL
                  THEN purple_debug(w, "Missing ts value in thread callback")
                  ELSE thread_cb_switch(w, op, conv, Deref(ts)) :
                    ts \in {json_get_prop_strptr(list[1], "ts")}} : TRUE :
       conv \in {w.ops[op].conv}} : TRUE

\* The label "end" asking the history again instead of releasing.
thread_cb_end_retries(w, op) ==
  CHOOSE out \in
    {[w EXCEPT !.inflight = @ \cup {q}, !.queries = Append(@, q)] :
       q \in {[callback |-> "slack_thread_cb", data |-> op,
               method |-> "conversations.history",
               channel |-> slack_conversation_id(w.ops[op].conv),
               oldest |-> <<"0">>, latest |-> <<"0">>]}} : TRUE

\* The label "end".
thread_cb_end(w, op) == thread_op_free(w, op)

\* The callback from the test of the length on, when that test does not fault.
thread_cb_finish(w, op, list) ==
  CHOOSE out \in
    {[w |-> thread_cb_end(w2, op), returned |-> TRUE] :
       w2 \in {thread_cb_branch(w, op, list)}} : TRUE

\* What a read of the array's length through a NULL list can find when it
\* does not fault: a zero page, the length 0.
Garbage == {g \in Lists : Len(g) = 0}

\* The callback up to the test of the length: the count of its runs, and the
\* report of an error or of a missing array.
thread_cb_enter(w, op, list, error) ==
  CHOOSE out \in
    {IF list = NULL \/ error # NULL
     THEN purple_debug(w0, "Error querying threads")
     ELSE w0 :
       w0 \in {[w EXCEPT !.ops[op].runs = @ + 1]}} : TRUE

\* slack_thread_cb: the set of outcomes.  Reading the length through a NULL
\* list is undefined: the process faults there (returned is FALSE), or the
\* read goes through and the callback carries on with what it found.
slack_thread_cb(w, data, json, error) ==
  IF data = 0
  THEN {[w |-> w, returned |-> TRUE]}
  ELSE UNION
         {IF list = NULL
          THEN {[w |-> w1, returned |-> FALSE]}
                 \cup {thread_cb_finish(w1, data, g) : g \in Garbage}
          ELSE {thread_cb_finish(w1, data, Deref(list))} :
            list \in {json_get_prop_type(json)},
            w1 \in {thread_cb_enter(w, data, json_get_prop_type(json), error)}}

\* ----------------------------------------------------------- query dispatch
Zeros == <<".", "0", "0", "0", "0", "0", "0">>
Nines == <<".", "9", "9", "9", "9", "9", "9">>

\* slack_api_get: the query is on its way, its callback owed once.
slack_api_get(w, callback, data, method, channel, oldest, latest) ==
  CHOOSE out \in
    {[w EXCEPT !.inflight = @ \cup {q}, !.queries = Append(@, q)] :
       q \in {[callback |-> callback, data |-> data, method |-> method,
               channel |-> channel, oldest |-> oldest, latest |-> latest]}} : TRUE

\* The dispatcher closing the window at the start of the next second.
slack_thread_call_operation_next_second(w, obj, op, ts) ==
  CHOOSE out \in
    {slack_api_get(w, "slack_thread_cb", op, "conversations.history",
                   id, oldest, latest) :
       oldest \in {fmt_ld(ts) \o Zeros},
       latest \in {fmt_ld(ts + 1) \o Zeros},
       id \in {slack_conversation_id(obj)}} : TRUE

slack_thread_call_operation(w, obj, op, ts) ==
  CHOOSE out \in
    {slack_api_get(w, "slack_thread_cb", op, "conversations.history",
                   id, oldest, latest) :
       oldest \in {fmt_ld(ts) \o Zeros},
       latest \in {fmt_ld(ts) \o Nines},
       id \in {slack_conversation_id(obj)}} : TRUE

\* ------------------------------------------------------------- entry points
CouldNotParse == <<"Could not parse thread timestamp.">>

\* The else branch of slack_thread_post_to_timestamp, ts being what the
\* resolver returned; T notes the instant handed to the dispatcher.
thread_post_resolved(w, obj, msg, ts) ==
  IF ts = 0
  THEN slack_write_message(w, obj, CouldNotParse)
  ELSE CHOOSE out \in
         {slack_thread_call_operation(new.w, obj, new.ret, ts) :
            new \in {thread_op_new_post([w EXCEPT !.T = ts], obj, msg)}} : TRUE

\* The entry point resolving every string, accepted or not.
slack_thread_post_to_timestamp_always_resolves(w, obj, timestr, msg, now) ==
  CHOOSE out \in
    {thread_post_resolved(w, obj, msg, ts) :
       ts \in {ResolvedAt[timestr][now]}} : TRUE

slack_thread_post_to_timestamp(w, obj, timestr, msg, now) ==
  IF slack_is_slack_ts(timestr)
  THEN slack_thread_post(w, obj, timestr, msg)
  ELSE CHOOSE out \in
         {thread_post_resolved(w, obj, msg, ts) :
            ts \in {ResolvedAt[timestr][now]}} : TRUE

\* The else branch of slack_thread_get_replies.
thread_replies_resolved(w, obj, ts) ==
  IF ts = 0
  THEN slack_write_message(w, obj, CouldNotParse)
  ELSE CHOOSE out \in
         {slack_thread_call_operation(new.w, obj, new.ret, ts) :
            new \in {thread_op_new_get_replies([w EXCEPT !.T = ts], obj)}} : TRUE

slack_thread_get_replies(w, obj, timestr, now) ==
  IF slack_is_slack_ts(timestr)
  THEN slack_get_thread_replies(w, obj, timestr)
  ELSE CHOOSE out \in
         {thread_replies_resolved(w, obj, ts) :
            ts \in {ResolvedAt[timestr][now]}} : TRUE

\* ------------------------------------------------------------------ actions
Commit(w, rec) ==
  /\ thread_ts' = w.thread_ts
  /\ refs' = w.refs
  /\ ops' = w.ops
  /\ inflight' = w.inflight
  /\ crashed' = ~rec.returned
  /\ last' = rec
  /\ UNCHANGED <<in_str, verdict, outbox, transmitted>>

\* A call that needs a struct when MaxOps are out is not made.
PostToTimestamp ==
  \E r \in PostRequests, now \in Nows :
    /\ ~crashed
    /\ \E w0 \in {World} :
         \E w \in {slack_thread_post_to_timestamp(w0, r.obj, r.timestr, r.msg, now)} :
           /\ w.created # <<0>>
           /\ Commit(w, CallRecord("slack_thread_post_to_timestamp", r.obj,
                                   r.timestr, r.msg, 0, "none", NULL, NULL,
                                   thread_ts,
                                   w, TRUE))

GetReplies ==
  \E r \in GetRequests, now \in Nows :
    /\ ~crashed
    /\ \E w0 \in {World} :
         \E w \in {slack_thread_get_replies(w0, r.obj, r.timestr, now)} :
           /\ w.created # <<0>>
           /\ Commit(w, CallRecord("slack_thread_get_replies", r.obj, r.timestr,
                                   NULL, 0, "none", NULL, NULL, thread_ts, w,
                                   TRUE))

\* The transport answers one query: its callback runs, once.
ThreadCb ==
  \E q \in inflight, r \in Responses :
    /\ ~crashed
    /\ \E w0 \in {[World EXCEPT !.inflight = @ \ {q}]} :
         \E out \in slack_thread_cb(w0, q.data, r.json, r.error) :
           Commit(out.w, CallRecord("slack_thread_cb", ops[q.data].conv, <<>>,
                                    ops[q.data].msg, q.data, ops[q.data].op,
                                    r.json, r.error, thread_ts, out.w,
                                    out.returned))

Init ==
  /\ thread_ts \in {[c \in Convs |-> v] : v \in {NULL, Ptr(TsOld)}}
  /\ refs = [c \in Convs |-> 0]
  /\ ops = [i \in OpIds |-> NoOp]
  /\ inflight = {}
  /\ crashed = FALSE
  /\ last = CallRecord("none", "none", <<>>, NULL, 0, "none", NULL, NULL,
                       thread_ts, World, TRUE)
  /\ in_str = <<>>
  /\ verdict = "none"
  /\ outbox = <<>>
  /\ transmitted = NULL

Next == PostToTimestamp \/ GetReplies \/ ThreadCb

Spec == Init /\ [][Next]_vars

\* The transport answers every query: slack_api_get owes each callback once,
\* and a query in flight is not left unanswered for ever.
SpecFair == Spec /\ WF_vars(ThreadCb)

\* The send being asynchronous (the XXX of slack_thread_post): the message
\* slack_thread_post hands to the send is only taken, with the timestamp
\* resolved for it and the thread-context the conversation had before, and
\* slack_thread_post returns.
ThreadPostAsync ==
  \E conv \in Convs, ts \in {TsA, TsB} :
    /\ Len(outbox) < MaxPending
    /\ \E w0 \in {World} :
         \E w \in {slack_thread_post(w0, conv, ts, Hello)} :
           /\ thread_ts' = w.thread_ts
           /\ outbox' = outbox \o [i \in DOMAIN w.sends |->
                                     [conv |-> w.sends[i].conv,
                                      msg |-> w.sends[i].msg,
                                      resolved |-> ts,
                                      before |-> thread_ts[conv]]]
    /\ UNCHANGED <<refs, ops, inflight, crashed, last, in_str, verdict, transmitted>>

\* The send completes: a message taken earlier goes out, tagged with the
\* thread-context its conversation has now.
Transmit ==
  \E i \in DOMAIN outbox :
    /\ transmitted' = Ptr([conv |-> outbox[i].conv, msg |-> outbox[i].msg,
                           resolved |-> outbox[i].resolved,
                           before |-> outbox[i].before,
                           tag |-> thread_ts[outbox[i].conv]])
    /\ outbox' = [j \in 1..(Len(outbox) - 1) |->
                    IF j < i THEN outbox[j] ELSE outbox[j + 1]]
    /\ UNCHANGED <<thread_ts, refs, ops, inflight, crashed, last, in_str, verdict>>

NextAsync == ThreadPostAsync \/ Transmit

SpecAsync == Init /\ [][NextAsync]_vars

\* The classifier on its own, on every string over Alphabet up to MaxLen.
Classify ==
  /\ verdict = "none"
  /\ verdict' = IF slack_is_slack_ts(in_str) THEN "TRUE" ELSE "FALSE"
  /\ UNCHANGED <<thread_ts, refs, ops, inflight, crashed, last, in_str, outbox,
                 transmitted>>

InitClassifier ==
  /\ thread_ts = [c \in Convs |-> NULL]
  /\ refs = [c \in Convs |-> 0]
  /\ ops = [i \in OpIds |-> NoOp]
  /\ inflight = {}
  /\ crashed = FALSE
  /\ last = CallRecord("none", "none", <<>>, NULL, 0, "none", NULL, NULL,
                       thread_ts, World, TRUE)
  /\ in_str \in SeqsUpTo(Alphabet, MaxLen)
  /\ verdict = "none"
  /\ outbox = <<>>
  /\ transmitted = NULL

NextClassifier == Classify

SpecClassifier == InitClassifier /\ [][NextClassifier]_vars

\* ------------------------------------------------------------------- claims
CallIsCb == last.call = "slack_thread_cb"
CallIsPost == last.call = "slack_thread_post_to_timestamp"
CallIsGet == last.call = "slack_thread_get_replies"
CallIsEntry == CallIsPost \/ CallIsGet

\* The "messages" array the last callback was handed (NULL when absent).
CbList == json_get_prop_type(last.json)
CbHasList == CallIsCb /\ CbList # NULL
CbLen == Len(Deref(CbList))
CbEntry(i) == Deref(CbList)[i]

NoSendNoFetch == last.sends = <<>> /\ last.fetched = <<>>

\* The Canonical Thread Timestamp grammar: one dot, digits on both sides of
\* it, nothing else.
IsCanonicalTs(str) ==
  \E d \in 1..Len(str) :
    /\ str[d] = "."
    /\ 1 < d
    /\ d < Len(str)
    /\ \A i \in (1..Len(str)) \ {d} : str[i] \in Digits

\* C1: every thread operation whose callback has run has been released
\* exactly once, and no operation is released or run twice.
C1_ReleasedExactlyOnce ==
  \A i \in OpIds :
    /\ ops[i].runs <= 1
    /\ ops[i].frees <= 1
    /\ ops[i].runs = 1 => ops[i].frees = 1

\* C2: a callback handed a transport error and no "messages" array writes
\* the not-found message to the operation's conversation, executes nothing,
\* releases the operation and returns.
C2_AbsentListIsMiss ==
  (CallIsCb /\ CbList = NULL /\ last.error # NULL) =>
    /\ last.returned
    /\ ~crashed
    /\ Len(last.written) = 1
    /\ last.written[1].conv = last.obj
    /\ last.written[1].text = <<"Thread not found. If the thread start date is not today, make sure you specify the date in the thread timestamp.">>
    /\ NoSendNoFetch
    /\ ops[last.data].frees = 1

\* A callback that ran slack_thread_post with a message: one match carrying
\* ts, a post operation, a message to send.
CbPosted ==
  /\ CbHasList
  /\ last.returned
  /\ CbLen = 1
  /\ CbEntry(1).ts # NULL
  /\ last.kind = "ThreadOpPost"
  /\ last.msg # NULL

\* C3: a single-match post sends its message while the conversation's
\* thread-context is the resolved timestamp, and leaves every thread-context
\* as it was before the callback, whether or not the send succeeded.
C3_PostRestoresThreadContext ==
  CbPosted =>
    /\ thread_ts = last.before
    /\ \A i \in DOMAIN last.sends :
         /\ last.sends[i].thread_ts = CbEntry(1).ts
         /\ last.sends[i].conv = last.obj
         /\ last.sends[i].msg = Deref(last.msg)
    /\ Len(last.sends) = IF ConvClass(last.obj) = "SlackObject" THEN 0 ELSE 1
    /\ ConvClass(last.obj) = "SlackObject" => last.logged # <<>>

\* C3 happens: a post sent under the resolved timestamp on a conversation
\* whose thread-context was, and is again, another timestamp.
C3_Witness ==
  /\ CbPosted
  /\ Len(last.sends) = 1
  /\ last.before[last.obj] = Ptr(TsOld)
  /\ last.sends[1].thread_ts = Ptr(TsA)

\* C4: the classifier returns true exactly for the strings of the Canonical
\* Thread Timestamp grammar.
C4_ClassifierIffCanonical ==
  verdict # "none" => ((verdict = "TRUE") <=> IsCanonicalTs(in_str))

\* C5: a callback handed a present, empty "messages" array writes exactly
\* the not-found literal to the operation's conversation and neither sends
\* nor fetches.
C5_EmptyListNotFound ==
  (CbHasList /\ CbLen = 0) =>
    /\ last.written =
         <<[conv |-> last.obj,
            text |-> <<"Thread not found. If the thread start date is not today, make sure you specify the date in the thread timestamp.">>,
            flags |-> "PURPLE_MESSAGE_SYSTEM"]>>
    /\ NoSendNoFetch

\* C5 happens: an empty array came back and the callback returned.
C5_Witness ==
  /\ CbHasList
  /\ CbLen = 0
  /\ last.error = NULL
  /\ last.returned
  /\ Len(last.written) = 1

\* A callback handed an array of more than one entry.
CbAmbiguous == CbHasList /\ CbLen > 1

HasTs(entry) == entry.ts # NULL

\* The positions of the token tok in text, in order.
TokenPositions(text, tok) ==
  LET IsTok(i) == text[i] = tok
  IN SelectSeq([i \in 1..Len(text) |-> i], IsTok)

LineEnd == "\")\n"

\* The text ends, at position e, with the tokens of tail.
EndsWith(text, e, tail) ==
  /\ e >= Len(tail)
  /\ SubSeq(text, e - Len(tail) + 1, e) = tail

\* How an entry with a ts is listed: the ts, then the text or "NULL".
ListedAs(entry) ==
  Deref(entry.ts) \o <<"</font> (\"">>
    \o (IF entry.text = NULL THEN <<"NULL">> ELSE Deref(entry.text))
    \o <<LineEnd>>

\* C6 as stated: the one system message lists every entry of the array, a
\* line for each, and nothing is sent or fetched.
C6_ListsEveryEntry ==
  CbAmbiguous =>
    /\ Len(last.written) = 1
    /\ Len(TokenPositions(last.written[1].text, LineEnd)) = CbLen
    /\ NoSendNoFetch

\* C6 amended: the one system message opens with the header and lists, in
\* the array's order, every entry that has a ts (its ts, then its text or
\* "NULL"), a line for each and no other line; nothing is sent or fetched.
C6_ListsEntriesWithTs ==
  CbAmbiguous =>
    LET listed == SelectSeq(Deref(CbList), HasTs)
        text == last.written[1].text
        ends == TokenPositions(text, LineEnd)
    IN /\ Len(last.written) = 1
       /\ last.written[1].conv = last.obj
       /\ last.written[1].flags = "PURPLE_MESSAGE_SYSTEM"
       /\ text[1] = "Thread timestamp is ambiguous. Please use one of the following unambiguous thread IDs:\n"
       /\ Len(ends) = Len(listed)
       /\ \A k \in 1..Len(listed) : EndsWith(text, ends[k], ListedAs(listed[k]))
       /\ Len(listed) > 0 => ends[Len(ends)] = Len(text)
       /\ Len(listed) = 0 => Len(text) = 1
       /\ NoSendNoFetch

\* C6 happens: an array of two, one entry without text and one without ts,
\* and the message lists the first with "NULL".
C6_Witness ==
  /\ CbAmbiguous
  /\ \E i, j \in 1..CbLen :
       /\ CbEntry(i).ts # NULL
       /\ CbEntry(i).text = NULL
       /\ CbEntry(j).ts = NULL
  /\ Len(last.written) = 1
  /\ \E k \in 1..Len(last.written[1].text) : last.written[1].text[k] = "NULL"

\* The resolver returns 0 for the string, whatever the clock.
Unparseable(timestr) == \A now \in Nows : ResolvedAt[timestr][now] = 0

\* C7: an entry point called with a string that is no canonical timestamp
\* and that the resolver cannot parse writes "Could not parse thread
\* timestamp.", creates no operation, dispatches no query, and sends and
\* fetches nothing.
C7_UnparseableReported ==
  (CallIsEntry /\ ~IsCanonicalTs(last.timestr) /\ Unparseable(last.timestr)) =>
    /\ last.written =
         <<[conv |-> last.obj,
            text |-> <<"Could not parse thread timestamp.">>,
            flags |-> "PURPLE_MESSAGE_SYSTEM"]>>
    /\ last.created = <<>>
    /\ last.queries = <<>>
    /\ NoSendNoFetch

\* C8: an entry point called with a string the classifier accepts performs
\* its operation before it returns, with that string as the thread
\* timestamp: the fetch for slack_thread_get_replies, the send (where there
\* is a message and a way to send it) for slack_thread_post_to_timestamp;
\* it creates no operation, dispatches no query and writes no message.
C8_AcceptedRunsImmediately ==
  (CallIsEntry /\ slack_is_slack_ts(last.timestr)) =>
    /\ last.returned
    /\ last.created = <<>>
    /\ last.queries = <<>>
    /\ last.written = <<>>
    /\ thread_ts = last.before
    /\ CallIsGet =>
         /\ last.fetched = <<[conv |-> last.obj, ts |-> last.timestr]>>
         /\ last.sends = <<>>
    /\ CallIsPost =>
         /\ last.fetched = <<>>
         /\ Len(last.sends) =
              IF last.msg = NULL \/ ConvClass(last.obj) = "SlackObject"
              THEN 0 ELSE 1
         /\ \A i \in DOMAIN last.sends :
              /\ last.sends[i].conv = last.obj
              /\ last.sends[i].msg = Deref(last.msg)
              /\ last.sends[i].thread_ts = Ptr(last.timestr)

\* C8 happens: a post to an accepted timestamp went out under it.
C8_Witness ==
  /\ CallIsPost
  /\ slack_is_slack_ts(last.timestr)
  /\ Len(last.sends) = 1
  /\ last.sends[1].thread_ts = Ptr(Str_canonical)

\* The value of a string of decimal digits, a minus sign allowed in front.
RECURSIVE DecValue(_, _, _)
DecValue(str, i, acc) ==
  IF i > Len(str) THEN acc
  ELSE DecValue(str, i + 1, acc * 10 + DigitVal(str[i]))

ParseLd(str) ==
  IF str # <<>> /\ str[1] = "-" THEN 0 - DecValue(Tail(str), 1, 0)
  ELSE DecValue(str, 1, 0)

\* The bound is the whole second T followed by the six-digit fraction.
IsBound(bound, T, fraction) ==
  /\ Len(bound) > 7
  /\ SubSeq(bound, Len(bound) - 6, Len(bound)) = <<".">> \o fraction
  /\ \A i \in 1..(Len(bound) - 7) : bound[i] \in Digits \cup {"-"}
  /\ ParseLd(SubSeq(bound, 1, Len(bound) - 7)) = T

\* C9: an entry point that resolves an instant T dispatches one history
\* query, for the conversation's identifier, from "T.000000" to "T.999999".
C9_QueryWindow ==
  (CallIsEntry /\ last.T # 0) =>
    /\ Len(last.queries) = 1
    /\ last.queries[1] \in inflight
    /\ last.queries[1].method = "conversations.history"
    /\ last.queries[1].channel = slack_conversation_id(last.obj)
    /\ IsBound(last.queries[1].oldest, last.T, <<"0", "0", "0", "0", "0", "0">>)
    /\ IsBound(last.queries[1].latest, last.T, <<"9", "9", "9", "9", "9", "9">>)

\* C9 happens: a date-and-time string resolved and its query is in flight.
C9_Witness ==
  /\ CallIsGet
  /\ last.timestr = Str_date_time
  /\ last.T = 1622471400
  /\ Len(last.queries) = 1

\* C10: a callback handed exactly one match without ts writes no message,
\* neither sends nor fetches, leaves every thread-context as it was and
\* releases the operation.
C10_MissingTsSilent ==
  (CbHasList /\ CbLen = 1 /\ CbEntry(1).ts = NULL) =>
    /\ last.returned
    /\ last.written = <<>>
    /\ NoSendNoFetch
    /\ thread_ts = last.before
    /\ ops[last.data].st = "freed"
    /\ ops[last.data].frees = 1
    /\ \A q \in inflight : q.data # last.data

\* C10 happens: the one match of a post operation with a message had no ts.
C10_Witness ==
  /\ CbHasList
  /\ CbLen = 1
  /\ CbEntry(1).ts = NULL
  /\ last.kind = "ThreadOpPost"
  /\ last.msg # NULL
  /\ ops[last.data].frees = 1

\* The last call ran slack_thread_post with a message on a conversation that
\* is neither a channel nor a user: from the callback of a post operation,
\* or from the entry point given an accepted timestamp.
SendFailed ==
  /\ ConvClass(last.obj) = "SlackObject"
  /\ \/ CbPosted
     \/ CallIsPost /\ slack_is_slack_ts(last.timestr) /\ last.msg # NULL

\* C11: when the send of a thread post fails, the failure is logged and no
\* system message is written, nothing goes out, every thread-context is as
\* it was before the call, and the operation of a callback is released.
C11_SendFailureLoggedOnly ==
  SendFailed =>
    /\ last.returned
    /\ last.written = <<>>
    /\ last.sends = <<>>
    /\ last.logged = <<"Not able to send message">>
    /\ thread_ts = last.before
    /\ CallIsCb =>
         /\ ops[last.data].st = "freed"
         /\ ops[last.data].frees = 1
         /\ refs[last.obj] =
              Cardinality({i \in OpIds : ops[i].st = "live" /\ ops[i].conv = last.obj})

\* C11 happens: the callback of a post operation on such a conversation ran
\* with one match, the conversation's thread-context being a timestamp.
C11_Witness ==
  /\ SendFailed
  /\ CallIsCb
  /\ last.logged # <<>>
  /\ last.before[last.obj] = Ptr(TsOld)
  /\ ops[last.data].frees = 1

\* C12: a step of an entry point dispatches at most one history query, and
\* a step of the callback answers one query and dispatches none, whatever
\* its outcome: the queries in flight are those before the step less the
\* one answered, none of them for the callback's operation.
C12_NoRetry ==
  [][/\ last'.call \in {"slack_thread_post_to_timestamp", "slack_thread_get_replies"} =>
          /\ Len(last'.queries) <= 1
          /\ inflight' = inflight \cup {last'.queries[i] : i \in DOMAIN last'.queries}
     /\ last'.call = "slack_thread_cb" =>
          /\ last'.queries = <<>>
          /\ inflight' \subseteq inflight
          /\ Cardinality(inflight \ inflight') = 1
          /\ \A q \in inflight' : q.data # last'.data]_vars

\* C12 happens: a callback reported a miss, and with it the last query in
\* flight is gone.
C12_Witness ==
  /\ CbHasList
  /\ CbLen = 0
  /\ last.error = NULL
  /\ last.returned
  /\ Len(last.written) = 1
  /\ last.queries = <<>>
  /\ inflight = {}
  /\ \E i \in OpIds : i # last.data /\ ops[i].st = "freed"

\* Two digits at position i of str, their value from lo to hi.
TwoDigits(str, i, lo, hi) ==
  /\ i + 1 <= Len(str)
  /\ str[i] \in Digits
  /\ str[i + 1] \in Digits
  /\ DigitVal(str[i]) * 10 + DigitVal(str[i + 1]) \in lo..hi

\* "HH:MM:SS" from position i to the end of str.
IsTimeAt(str, i) ==
  /\ Len(str) = i + 7
  /\ TwoDigits(str, i, 0, 23)
  /\ str[i + 2] = ":"
  /\ TwoDigits(str, i + 3, 0, 59)
  /\ str[i + 5] = ":"
  /\ TwoDigits(str, i + 6, 0, 59)

\* "MM/DD/YY-HH:MM:SS", the whole of str.
IsDateTime(str) ==
  /\ TwoDigits(str, 1, 1, 12)
  /\ str[3] = "/"
  /\ TwoDigits(str, 4, 1, 31)
  /\ str[6] = "/"
  /\ TwoDigits(str, 7, 0, 99)
  /\ str[9] = "-"
  /\ IsTimeAt(str, 10)

\* The whole string is a time, or a date and a time.
FullMatch(str) == IsTimeAt(str, 1) \/ IsDateTime(str)

\* C13: when an entry point hands its string to the resolver, the instant
\* it gets is non-zero if the whole string matches one of the two patterns,
\* and 0 if it matches neither.
C13_NonZeroIffFullMatch ==
  (CallIsEntry /\ ~slack_is_slack_ts(last.timestr)) =>
    /\ FullMatch(last.timestr) => last.T # 0
    /\ ~FullMatch(last.timestr) => last.T = 0

\* C16: with every query answered, every thread operation created is
\* released in the end; and while its query is unanswered an operation is
\* neither released nor run.
C16_DeliveredThenReleased ==
  /\ \A i \in OpIds : (ops[i].st = "live") ~> (ops[i].st = "freed")
  /\ [](\A q \in inflight :
          /\ ops[q.data].st = "live"
          /\ ops[q.data].frees = 0
          /\ ops[q.data].runs = 0)

\* C14: with an asynchronous send, a message goes out tagged with the
\* thread-context its conversation had before slack_thread_post, which
\* slack_thread_post has restored by then: not with the timestamp resolved
\* for it, unless the two are the same.
C14_AsyncSendTaggedWithRestored ==
  transmitted # NULL =>
    /\ Deref(transmitted).tag = Deref(transmitted).before
    /\ Deref(transmitted).tag = thread_ts[Deref(transmitted).conv]

\* C14 happens: two posts on one conversation were taken, and the first
\* went out tagged with another thread-context than the timestamp resolved
\* for it while the second was still held.
C14_Witness ==
  /\ transmitted # NULL
  /\ Deref(transmitted).tag # Ptr(Deref(transmitted).resolved)
  /\ \E i \in DOMAIN outbox :
       /\ outbox[i].conv = Deref(transmitted).conv
       /\ outbox[i].resolved # Deref(transmitted).resolved

\* C15: an operation holds what the entry point that created it was given;
\* nothing changes it while its query is pending, whatever else is created
\* or called back meanwhile; and its callback, given one match with ts,
\* acts on it alone: a post operation sends its message (if it has one and
\* its conversation can be sent to) once, to its conversation, under the
\* match's ts, and fetches nothing; a get-replies operation fetches once,
\* for its conversation and the match's ts, and sends nothing.
C15_ActsOnOwnCapture ==
  [][/\ \A i \in OpIds :
          (ops[i].st = "unused" /\ ops'[i].st = "live") =>
            /\ last'.created = <<i>>
            /\ ops'[i].conv = last'.obj
            /\ ops'[i].msg = last'.msg
            /\ ops'[i].op = IF last'.call = "slack_thread_post_to_timestamp"
                            THEN "ThreadOpPost" ELSE "ThreadOpGetReplies"
     /\ \A i \in OpIds :
          (ops[i].st = "live" /\ ~(last'.call = "slack_thread_cb" /\ last'.data = i)) =>
            ops'[i] = ops[i]
     /\ (/\ last'.call = "slack_thread_cb"
         /\ json_get_prop_type(last'.json) # NULL
         /\ Len(Deref(json_get_prop_type(last'.json))) = 1
         /\ Deref(json_get_prop_type(last'.json))[1].ts # NULL) =>
          LET own == ops[last'.data]
              ts == Deref(Deref(json_get_prop_type(last'.json))[1].ts)
          IN /\ own.st = "live"
             /\ own.op = "ThreadOpPost" =>
                  /\ last'.fetched = <<>>
                  /\ Len(last'.sends) =
                       IF own.msg = NULL \/ ConvClass(own.conv) = "SlackObject"
                       THEN 0 ELSE 1
                  /\ \A k \in DOMAIN last'.sends :
                       /\ last'.sends[k].conv = own.conv
                       /\ last'.sends[k].msg = Deref(own.msg)
                       /\ last'.sends[k].thread_ts = Ptr(ts)
             /\ own.op = "ThreadOpGetReplies" =>
                  /\ last'.sends = <<>>
                  /\ last'.fetched = <<[conv |-> own.conv, ts |-> ts]>>]_vars

\* C15 happens: the second operation created was called back first, with
\* one match, and sent its message, the first still pending on another
\* conversation.
C15_Witness ==
  /\ CbPosted
  /\ last.data = 2
  /\ Len(last.sends) = 1
  /\ ops[1].st = "live"
  /\ ops[1].conv # last.obj
  /\ \E q \in inflight : q.data = 1

\* The operations created for a conversation and not yet released.
LiveOps(conv) == {i \in OpIds : ops[i].st = "live" /\ ops[i].conv = conv}

\* C17: the references held on a conversation are as many as the operations
\* created for it and not yet released, and none once no query is in flight
\* and every callback has returned.
C17_RefsCountLiveOps ==
  /\ \A c \in Convs : refs[c] = Cardinality(LiveOps(c))
  /\ \A q \in inflight : refs[ops[q.data].conv] >= 1
  /\ (inflight = {} /\ ~crashed) => \A c \in Convs : refs[c] = 0

\* C17 happens: of two operations created for one conversation a callback
\* has released one, and the conversation is referenced once, for the other.
C17_Witness ==
  /\ CbHasList
  /\ last.returned
  /\ ops[last.data].st = "freed"
  /\ refs[last.obj] = 1
  /\ \E q \in inflight : ops[q.data].conv = last.obj

\* The last call went through slack_thread_post: the callback of a post
\* operation with one match carrying ts, or slack_thread_post_to_timestamp
\* given a timestamp the classifier accepts.
ThroughThreadPost ==
  \/ CbHasList /\ CbLen = 1 /\ CbEntry(1).ts # NULL /\ last.kind = "ThreadOpPost"
  \/ CallIsPost /\ slack_is_slack_ts(last.timestr)

\* C18: after an entry point or the callback every thread-context is what
\* it was before the call, and a call that did not go through
\* slack_thread_post sent nothing under any thread-context.
C18_ThreadContextFrame ==
  (CallIsEntry \/ CallIsCb) =>
    /\ thread_ts = last.before
    /\ ~ThroughThreadPost => last.sends = <<>>

\* C18 happens: the callback of a get-replies operation fetched the replies
\* of its one match on a conversation whose thread-context is a timestamp.
C18_Witness ==
  /\ CbHasList
  /\ CbLen = 1
  /\ last.kind = "ThreadOpGetReplies"
  /\ Len(last.fetched) = 1
  /\ last.before[last.obj] = Ptr(TsOld)
  /\ thread_ts[last.obj] = Ptr(TsOld)

\* The last call ran slack_thread_post with no message.
PostedNothing == ThroughThreadPost /\ last.msg = NULL

\* C19: slack_thread_post with no message sends nothing, reports no failed
\* send and leaves every thread-context alone; the operation of a callback
\* it was called from is released.
C19_NullMessageNoOp ==
  PostedNothing =>
    /\ last.returned
    /\ last.sends = <<>>
    /\ last.logged = <<>>
    /\ last.written = <<>>
    /\ last.fetched = <<>>
    /\ thread_ts = last.before
    /\ CallIsCb =>
         /\ ops[last.data].st = "freed"
         /\ ops[last.data].frees = 1

\* C19 happens: a post operation created without a message was called back
\* with one match carrying ts, and is released.
C19_Witness ==
  /\ PostedNothing
  /\ CallIsCb
  /\ last.error = NULL
  /\ ops[last.data].frees = 1

====
